---------------------------- MODULE Spec2Model ----------------------------
(***************************************************************************)
(* State-machine model of src/ethdb/badger.go: the BadgerDatabase adapter  *)
(* (Put/Has/Get/Delete over an embedded transactional engine, with snappy  *)
(* value compression), its write batch (badgerBatch) and its iterator      *)
(* (badgerIterator).                                                       *)
(*                                                                         *)
(* The engine (badger) is an external collaborator.  It is modelled by the *)
(* interface the adapter uses: a committed key -> bytes map, transactions  *)
(* that commit all of their pending writes or none, read transactions that *)
(* see the map as of their creation, and calls that may fail.  Which call  *)
(* fails is an input of every action that makes one.                       *)
(***************************************************************************)
EXTENDS Integers, Sequences, FiniteSets, TLC

VARIABLES
    store,  \* BadgerDatabase.db: the engine's committed contents, key -> raw bytes
    b,      \* badgerBatch.b: the batch's accumulator, key -> value
    size,   \* badgerBatch.size
    it,     \* the badgerIterator in use (txn snapshot, position, flags)
    ret,    \* the call that returned last: its name, inputs and results
    tb,     \* the tableBatch wrapping the batch: its prefixes, outermost first
    meter,  \* BadgerDatabase's timers and meters (getTimer ... batchWriteMeter)
    closed, \* Close's progress on the engine: "open", "sleeping" or "closed"
    gc,     \* the runGC goroutine: its position, the cycle's engine calls, err
    tick,   \* ticker.C holds a tick that runGC has not received yet
    log     \* the last record written to db.log

vars == <<store, b, size, it, ret, tb, meter, closed, gc, tick, log>>

\* The state of Close and of the runGC goroutine.
life == <<closed, gc, tick, log>>

---------------------------------------------------------------------------
(* Bounds of the model. *)

\* badgerBatch.Put is enabled while the size counter stays within MaxSize.
MaxSize == 2

\* With metering on, Put, Get and Delete are enabled while the timers hold
\* fewer than MaxSamples samples.
MaxSamples == 3

\* Keys: non-empty byte strings; <<1>> is a proper prefix of <<1, 2>>.
Keys == {<<1>>, <<1, 2>>, <<2>>}

\* Values: the zero-length value and a one-byte value.
Values == {<<>>, <<1>>}

---------------------------------------------------------------------------
(* Errors, optional results, maps. *)

Nil            == "nil"
ErrKeyNotFound == "ErrKeyNotFound"     \* badger.ErrKeyNotFound
ErrEngine      == "ErrEngine"          \* any other error of an engine call
ErrCorrupt     == "ErrCorrupt"         \* snappy.ErrCorrupt

\* A Go []byte result that may be nil: <<>> is nil, <<x>> is the slice x.
NoData  == <<>>
Data(x) == <<x>>

EmptyMap == [k \in {} |-> <<>>]

MapSet(m, k, v) == [x \in (DOMAIN m) \cup {k} |-> IF x = k THEN v ELSE m[x]]

MapDel(m, k) == [x \in (DOMAIN m) \ {k} |-> m[x]]

---------------------------------------------------------------------------
(* The value codec: snappy's block format.  A block is the uvarint of the  *)
(* decoded length followed by elements; an input shorter than snappy's     *)
(* minimum block for matching (17 bytes) is encoded as one literal         *)
(* element: the tag byte (n-1)*4 followed by the n bytes.  The empty input *)
(* is encoded as the header alone.                                         *)

\* Encode with the literal's tag byte left out.
EncodeNoTag(v) == <<Len(v)>> \o v

\* snappy.Encode(nil, value)
Encode(v) ==
    IF Len(v) = 0 THEN <<0>> ELSE <<Len(v), 4 * (Len(v) - 1)>> \o v

\* The elements of a block, decoded one after the other; out is what has been
\* decoded so far, n the length the header announced.
RECURSIVE DecodeElems(_, _, _)
DecodeElems(src, out, n) ==
    IF Len(src) = 0
    THEN IF Len(out) = n THEN [dat |-> Data(out), err |-> Nil]
                         ELSE [dat |-> NoData, err |-> ErrCorrupt]
    ELSE LET tag == Head(src)
             len == (tag \div 4) + 1
             rest == Tail(src)
         IN IF tag % 4 # 0 \/ tag \div 4 >= 60
               \/ len > n - Len(out) \/ len > Len(rest)
            THEN [dat |-> NoData, err |-> ErrCorrupt]
            ELSE DecodeElems(SubSeq(rest, len + 1, Len(rest)),
                             out \o SubSeq(rest, 1, len), n)

\* snappy.Decode(nil, dat): the decoded bytes, or ErrCorrupt and no bytes.
Decode(e) ==
    IF Len(e) = 0 THEN [dat |-> NoData, err |-> ErrCorrupt]
    ELSE DecodeElems(Tail(e), <<>>, Head(e))

---------------------------------------------------------------------------
(* The engine's transactions, as the adapter uses them. *)

\* txn.Get(key) in a transaction that sees the contents s.  flt: the call fails.
TxnGet(s, k, flt) ==
    IF flt THEN [found |-> FALSE, val |-> <<>>, err |-> ErrEngine]
    ELSE IF k \in DOMAIN s THEN [found |-> TRUE, val |-> s[k], err |-> Nil]
    ELSE [found |-> FALSE, val |-> <<>>, err |-> ErrKeyNotFound]

\* db.Update(fn): the pending writes are committed iff fn returned nil and the
\* commit itself did not fail (cf); otherwise the transaction is discarded.
Update(s, pending, fnErr, cf) ==
    IF fnErr # Nil THEN [store |-> s, err |-> fnErr]
    ELSE IF cf THEN [store |-> s, err |-> ErrEngine]
    ELSE [store |-> pending, err |-> Nil]

\* txn.Set(key, value) on the pending writes p.  fail: the call fails, and then
\* the entry is not added to the transaction.
TxnSet(p, k, e, fail) ==
    IF fail THEN [pending |-> p, err |-> ErrEngine]
    ELSE [pending |-> MapSet(p, k, e), err |-> Nil]

\* txn.Delete(key) on the pending writes p.  flt: "delete" the call fails;
\* "notfound" the engine reports an absent key as ErrKeyNotFound.
TxnDelete(p, k, flt) ==
    IF flt = "delete" THEN [pending |-> p, err |-> ErrEngine]
    ELSE IF flt = "notfound" /\ k \notin DOMAIN p
         THEN [pending |-> p, err |-> ErrKeyNotFound]
    ELSE [pending |-> MapDel(p, k), err |-> Nil]

---------------------------------------------------------------------------
(* The record of the call that returned last. *)

\* on: the object the call was made on, the BadgerDatabase ("db") unless
\* OnTable names a table.
Ret(op, key, arg, flt, err, dat, ok, n) ==
    [op |-> op, key |-> key, arg |-> arg, flt |-> flt,
     err |-> err, dat |-> dat, ok |-> ok, n |-> n, on |-> "db"]

OnTable(r, t) == [r EXCEPT !.on = t]

\* The batch is not wrapped in a tableBatch.  Of a wrapped batch: prefixes
\* are the wrappers' prefixes, outermost first, and table is the table whose
\* NewBatch made it.
NoTableBatch == [prefixes |-> <<>>, table |-> "db"]

\* A metrics.Meter: the number of Mark calls made on it and their sum.
NoMarks == [marks |-> 0, count |-> 0]

Mark(x, n) == [marks |-> x.marks + 1, count |-> x.count + n]

\* The collectors before Meter: all nil.  After Meter (on): a Timer is the
\* number of its samples.
NoMeter ==
    [on |-> FALSE, getTimer |-> 0, putTimer |-> 0, delTimer |-> 0,
     missMeter |-> NoMarks, readMeter |-> NoMarks, writeMeter |-> NoMarks,
     batchPutTimer |-> 0, batchWriteTimer |-> 0, batchWriteMeter |-> NoMarks]

\* Nothing logged yet.
NoLog == [msg |-> "", err |-> Nil]

\* No iterator yet.  Of an iterator: snap is what its read transaction sees,
\* pos the engine iterator's position among the keys in ascending order (0: not
\* positioned; past the last key: exhausted); seeked and visited are history:
\* whether Seek was called, and the keys on which Next returned true while
\* Seek had not been called.
NoIter ==
    [exists |-> FALSE, snap |-> EmptyMap, pos |-> 0, initialised |-> FALSE,
     released |-> FALSE, seeked |-> FALSE, visited |-> <<>>]

---------------------------------------------------------------------------
(* BadgerDatabase: Put, Has, Get, Delete. *)

\* The result of Put's Update: the closure encodes the value and sets it.
PutRet(s, k, v, flt) ==
    LET set == TxnSet(s, k, Encode(v), flt = "set")
    IN Update(s, set.pending, set.err, flt = "commit")

\* Put's collectors: putTimer.UpdateSince and writeMeter.Mark(len(value)).
PutMeter(m, v) ==
    IF m.on THEN [m EXCEPT !.putTimer = @ + 1, !.writeMeter = Mark(@, Len(v))]
    ELSE m

Put(k, v, flt) ==
    LET r == PutRet(store, k, v, flt)
    IN /\ store' = r.store
       /\ meter' = PutMeter(meter, v)
       /\ ret' = Ret("Put", k, Data(v), flt, r.err, NoData, FALSE, 0)
       /\ UNCHANGED <<b, size, it, tb, life>>

\* Has with the engine's not-found error passed through.
HasRetNotFoundSurfaced(s, k, flt) ==
    LET g == TxnGet(s, k, flt)
    IN [ok |-> g.found, err |-> g.err]

\* Has: (ret, err) of the View.
HasRet(s, k, flt) ==
    LET g == TxnGet(s, k, flt)
    IN IF g.err = ErrKeyNotFound THEN [ok |-> FALSE, err |-> Nil]
       ELSE [ok |-> g.found, err |-> g.err]

Has(k, flt) ==
    LET r == HasRet(store, k, flt)
    IN /\ ret' = Ret("Has", k, NoData, IF flt THEN "get" ELSE "none",
                     r.err, NoData, r.ok, 0)
       /\ UNCHANGED <<store, b, size, it, tb, meter, life>>

\* Get: (dat, err).  flt: "get" txn.Get fails, "value" item.Value fails.
GetRet(s, k, flt) ==
    LET g == TxnGet(s, k, flt = "get")
    IN IF g.err # Nil THEN [dat |-> NoData, err |-> g.err]
       ELSE IF flt = "value" THEN [dat |-> NoData, err |-> ErrEngine]
       ELSE LET d == Decode(g.val)
            IN IF d.err # Nil THEN [dat |-> NoData, err |-> d.err]
               ELSE [dat |-> d.dat, err |-> Nil]

\* Get's collectors, r being (dat, err) of the View: getTimer.UpdateSince,
\* readMeter.Mark(len(dat)) whatever err is, and missMeter.Mark(1) if err is
\* not nil.
GetMeter(m, r) ==
    IF m.on
    THEN [m EXCEPT !.getTimer = @ + 1,
                   !.readMeter = Mark(@, IF r.dat = NoData THEN 0 ELSE Len(r.dat[1])),
                   !.missMeter = IF r.err # Nil THEN Mark(@, 1) ELSE @]
    ELSE m

Get(k, flt) ==
    LET r == GetRet(store, k, flt)
    IN /\ meter' = GetMeter(meter, r)
       /\ ret' = Ret("Get", k, NoData, flt, r.err, r.dat, FALSE, 0)
       /\ UNCHANGED <<store, b, size, it, tb, life>>

\* Delete with the engine's not-found error passed through.
DeleteRetNotFoundSurfaced(s, k, flt) ==
    LET del == TxnDelete(s, k, flt)
    IN Update(s, del.pending, del.err, flt = "commit")

\* The result of Delete's Update: ErrKeyNotFound of txn.Delete becomes nil.
DeleteRet(s, k, flt) ==
    LET del == TxnDelete(s, k, flt)
        err == IF del.err = ErrKeyNotFound THEN Nil ELSE del.err
    IN Update(s, del.pending, err, flt = "commit")

\* Delete's collector: delTimer.UpdateSince.
DeleteMeter(m) == IF m.on THEN [m EXCEPT !.delTimer = @ + 1] ELSE m

Delete(k, flt) ==
    LET r == DeleteRet(store, k, flt)
    IN /\ store' = r.store
       /\ meter' = DeleteMeter(meter)
       /\ ret' = Ret("Delete", k, NoData, flt, r.err, NoData, FALSE, 0)
       /\ UNCHANGED <<b, size, it, tb, life>>

\* Meter(prefix): nothing if the metrics system is disabled; else every
\* collector is a new one.
Meter(enabled) ==
    /\ meter' = IF enabled THEN [NoMeter EXCEPT !.on = TRUE] ELSE meter
    /\ ret' = Ret("Meter", <<>>, NoData, "none", Nil, NoData, enabled, 0)
    /\ UNCHANGED <<store, b, size, it, tb, life>>

---------------------------------------------------------------------------
(* badgerBatch: NewBatch, Put, Write, Discard, ValueSize, Reset. *)

NewBatch ==
    /\ b' = EmptyMap
    /\ size' = 0
    /\ tb' = NoTableBatch
    /\ ret' = Ret("NewBatch", <<>>, NoData, "none", Nil, NoData, FALSE, 0)
    /\ UNCHANGED <<store, it, meter, life>>

\* badgerBatch.Put's collector: batchPutTimer.UpdateSince.
BatchPutMeter(m) == IF m.on THEN [m EXCEPT !.batchPutTimer = @ + 1] ELSE m

\* badgerBatch.Write's collectors: batchWriteTimer.UpdateSince and
\* batchWriteMeter.Mark(b.size).
WriteMeter(m, sz) ==
    IF m.on
    THEN [m EXCEPT !.batchWriteTimer = @ + 1, !.batchWriteMeter = Mark(@, sz)]
    ELSE m

\* The accumulator after badgerBatch.Put.
BatchPutMap(m, k, v) == MapSet(m, k, v)

\* The total length of the values queued in m.
RECURSIVE SumLen(_)
SumLen(m) ==
    IF DOMAIN m = {} THEN 0
    ELSE LET k == CHOOSE x \in DOMAIN m : TRUE
         IN Len(m[k]) + SumLen(MapDel(m, k))

\* Put that keeps size equal to the total length of the queued values.
BatchPutSizeOfQueued(k, v) ==
    /\ size + Len(v) <= MaxSize
    /\ b' = BatchPutMap(b, k, v)
    /\ size' = SumLen(b')
    /\ meter' = BatchPutMeter(meter)
    /\ ret' = Ret("BatchPut", k, NoData, "none", Nil, NoData, FALSE, 0)
    /\ UNCHANGED <<store, it, tb, life>>

BatchPut(k, v) ==
    /\ size + Len(v) <= MaxSize
    /\ b' = BatchPutMap(b, k, v)
    /\ size' = size + Len(v)
    /\ meter' = BatchPutMeter(meter)
    /\ ret' = Ret("BatchPut", k, NoData, "none", Nil, NoData, FALSE, 0)
    /\ UNCHANGED <<store, it, tb, life>>

\* The orders in which a range over a Go map with the keys S may visit them.
Orders(S) ==
    {o \in [1..Cardinality(S) -> S] : \A i, j \in DOMAIN o : o[i] = o[j] => i = j}

\* The loop of Write's closure from entry i on: every entry is encoded and set,
\* and err is assigned the result of each Set in turn.  fails: the positions
\* whose Set fails.
RECURSIVE WriteLoop(_, _, _, _, _, _)
WriteLoop(m, order, fails, i, pending, err) ==
    IF i > Len(order) THEN [pending |-> pending, err |-> err]
    ELSE LET set == TxnSet(pending, order[i], Encode(m[order[i]]), i \in fails)
         IN WriteLoop(m, order, fails, i + 1, set.pending, set.err)

\* The result of Write's Update.
WriteRet(s, m, order, fails, cf) ==
    LET fn == WriteLoop(m, order, fails, 1, s, Nil)
    IN Update(s, fn.pending, fn.err, cf)

\* Write that returns a failure before clearing the batch.
WriteKeptOnError(order, fails, cf) ==
    LET r == WriteRet(store, b, order, fails, cf)
    IN /\ store' = r.store
       /\ size' = IF r.err # Nil THEN size ELSE 0
       /\ b' = IF r.err # Nil THEN b ELSE EmptyMap
       /\ ret' = Ret("Write", <<>>, NoData,
                     IF fails # {} THEN "set" ELSE IF cf THEN "commit" ELSE "none",
                     r.err, NoData, FALSE, 0)
       /\ meter' = WriteMeter(meter, size)
       /\ UNCHANGED <<it, tb, life>>

Write(order, fails, cf) ==
    LET r == WriteRet(store, b, order, fails, cf)
    IN /\ store' = r.store
       /\ size' = 0
       /\ b' = EmptyMap
       /\ ret' = Ret("Write", <<>>, NoData,
                     IF fails # {} THEN "set" ELSE IF cf THEN "commit" ELSE "none",
                     r.err, NoData, FALSE, 0)
       /\ meter' = WriteMeter(meter, size)
       /\ UNCHANGED <<it, tb, life>>

\* Discard that resets the size counter only.
DiscardKeepsEntries ==
    /\ size' = 0
    /\ ret' = Ret("Discard", <<>>, NoData, "none", Nil, NoData, FALSE, 0)
    /\ UNCHANGED <<store, b, it, tb, meter, life>>

Discard ==
    /\ b' = EmptyMap
    /\ size' = 0
    /\ ret' = Ret("Discard", <<>>, NoData, "none", Nil, NoData, FALSE, 0)
    /\ UNCHANGED <<store, it, tb, meter, life>>

ValueSize ==
    /\ ret' = Ret("ValueSize", <<>>, NoData, "none", Nil, NoData, FALSE, size)
    /\ UNCHANGED <<store, b, size, it, tb, meter, life>>

Reset ==
    /\ b' = EmptyMap
    /\ size' = 0
    /\ ret' = Ret("Reset", <<>>, NoData, "none", Nil, NoData, FALSE, 0)
    /\ UNCHANGED <<store, it, tb, meter, life>>

---------------------------------------------------------------------------
(* table and tableBatch: a Database and a Batch that prefix every key.     *)

\* The tables in use, by name: T1, T2 and T4 are tables over the
\* BadgerDatabase ("db"), T3 is a table over T1.  A table's fields are set by
\* NewTable and no method assigns them.
Tables ==
    [T1 |-> [db |-> "db", prefix |-> <<1>>],
     T2 |-> [db |-> "db", prefix |-> <<2>>],
     T3 |-> [db |-> "T1", prefix |-> <<2>>],
     T4 |-> [db |-> "db", prefix |-> <<1, 2>>]]

\* The keys the callers pass to table t.
TableKeys(t) == IF t = "T1" THEN {<<3>>, <<2, 3>>} ELSE {<<3>>}

\* A table that passes the caller's key on as it is.
TableKeyUnprefixed(t, key) == key

\* A table that appends its prefix to the key.
TableKeySuffixed(t, key) == key \o Tables[t].prefix

\* append([]byte(dt.prefix), key...)
TableKey(t, key) == Tables[t].prefix \o key

\* d.Put(key, value) of the Database d, a table or the BadgerDatabase: a
\* table delegates to its db with the rewritten key.
RECURSIVE DatabasePut(_, _, _, _, _)
DatabasePut(d, s, key, v, flt) ==
    IF d = "db" THEN PutRet(s, key, v, flt)
    ELSE DatabasePut(Tables[d].db, s, TableKey(d, key), v, flt)

RECURSIVE DatabaseHas(_, _, _, _)
DatabaseHas(d, s, key, flt) ==
    IF d = "db" THEN HasRet(s, key, flt)
    ELSE DatabaseHas(Tables[d].db, s, TableKey(d, key), flt)

RECURSIVE DatabaseGet(_, _, _, _)
DatabaseGet(d, s, key, flt) ==
    IF d = "db" THEN GetRet(s, key, flt)
    ELSE DatabaseGet(Tables[d].db, s, TableKey(d, key), flt)

RECURSIVE DatabaseDelete(_, _, _, _)
DatabaseDelete(d, s, key, flt) ==
    IF d = "db" THEN DeleteRet(s, key, flt)
    ELSE DatabaseDelete(Tables[d].db, s, TableKey(d, key), flt)

TablePut(t, key, v, flt) ==
    LET r == DatabasePut(t, store, key, v, flt)
    IN /\ store' = r.store
       /\ meter' = PutMeter(meter, v)
       /\ ret' = OnTable(Ret("Put", key, Data(v), flt, r.err, NoData, FALSE, 0), t)
       /\ UNCHANGED <<b, size, it, tb, life>>

TableHas(t, key, flt) ==
    LET r == DatabaseHas(t, store, key, flt)
    IN /\ ret' = OnTable(Ret("Has", key, NoData, IF flt THEN "get" ELSE "none",
                             r.err, NoData, r.ok, 0), t)
       /\ UNCHANGED <<store, b, size, it, tb, meter, life>>

TableGet(t, key, flt) ==
    LET r == DatabaseGet(t, store, key, flt)
    IN /\ meter' = GetMeter(meter, r)
       /\ ret' = OnTable(Ret("Get", key, NoData, flt, r.err, r.dat, FALSE, 0), t)
       /\ UNCHANGED <<store, b, size, it, tb, life>>

TableDelete(t, key, flt) ==
    LET r == DatabaseDelete(t, store, key, flt)
    IN /\ store' = r.store
       /\ meter' = DeleteMeter(meter)
       /\ ret' = OnTable(Ret("Delete", key, NoData, flt, r.err, NoData, FALSE, 0), t)
       /\ UNCHANGED <<b, size, it, tb, life>>

\* A table whose Close closes the engine of its backing store.
TableCloseBacking(t) ==
    /\ closed' = "closed"
    /\ ret' = OnTable(Ret("Close", <<>>, NoData, "none", Nil, NoData, FALSE, 0), t)
    /\ UNCHANGED <<store, b, size, it, tb, meter, gc, tick, log>>

TableClose(t) ==
    /\ ret' = OnTable(Ret("Close", <<>>, NoData, "none", Nil, NoData, FALSE, 0), t)
    /\ UNCHANGED <<store, b, size, it, tb, meter, life>>

\* The prefixes, outermost first, of the wrappers around the badgerBatch that
\* d.NewBatch() returns: none for the BadgerDatabase; a table wraps its db's
\* batch in a tableBatch with its own prefix.
RECURSIVE DatabaseNewBatch(_)
DatabaseNewBatch(d) ==
    IF d = "db" THEN <<>>
    ELSE <<Tables[d].prefix>> \o DatabaseNewBatch(Tables[d].db)

TableNewBatch(t) ==
    /\ b' = EmptyMap
    /\ size' = 0
    /\ tb' = [prefixes |-> DatabaseNewBatch(t), table |-> t]
    /\ ret' = OnTable(Ret("NewBatch", <<>>, NoData, "none", Nil, NoData, FALSE, 0), t)
    /\ UNCHANGED <<store, it, meter, life>>

\* NewTableBatch(db, prefix), db being the Database d: the batch is the one
\* of the table with that prefix over d.
NewTableBatch(d, prefix) ==
    /\ b' = EmptyMap
    /\ size' = 0
    /\ tb' = [prefixes |-> <<prefix>> \o DatabaseNewBatch(d),
              table |-> CHOOSE t \in DOMAIN Tables :
                            Tables[t] = [db |-> d, prefix |-> prefix]]
    /\ ret' = OnTable(Ret("NewTableBatch", prefix, NoData, "none", Nil, NoData,
                          FALSE, 0), d)
    /\ UNCHANGED <<store, it, meter, life>>

\* A tableBatch that applies its own prefix and puts into the badgerBatch.
TableBatchKeyOuterOnly(prefixes, key) ==
    IF prefixes = <<>> THEN key ELSE Head(prefixes) \o key

\* The key the badgerBatch receives from tableBatch.Put(key, value): each
\* wrapper prepends its prefix and delegates to the batch it wraps.
RECURSIVE TableBatchKey(_, _)
TableBatchKey(prefixes, key) ==
    IF prefixes = <<>> THEN key
    ELSE TableBatchKey(Tail(prefixes), Head(prefixes) \o key)

TableBatchPut(key, v) ==
    /\ tb # NoTableBatch
    /\ size + Len(v) <= MaxSize
    /\ b' = BatchPutMap(b, TableBatchKey(tb.prefixes, key), v)
    /\ size' = size + Len(v)
    /\ meter' = BatchPutMeter(meter)
    /\ ret' = OnTable(Ret("BatchPut", key, NoData, "none", Nil, NoData, FALSE, 0),
                      tb.table)
    /\ UNCHANGED <<store, it, tb, life>>

TableBatchWrite(order, fails, cf) ==
    LET r == WriteRet(store, b, order, fails, cf)
    IN /\ tb # NoTableBatch
       /\ store' = r.store
       /\ size' = 0
       /\ b' = EmptyMap
       /\ meter' = WriteMeter(meter, size)
       /\ ret' = OnTable(Ret("Write", <<>>, NoData,
                             IF fails # {} THEN "set"
                             ELSE IF cf THEN "commit" ELSE "none",
                             r.err, NoData, FALSE, 0), tb.table)
       /\ UNCHANGED <<it, tb, life>>

TableBatchValueSize ==
    /\ tb # NoTableBatch
    /\ ret' = OnTable(Ret("ValueSize", <<>>, NoData, "none", Nil, NoData, FALSE,
                          size), tb.table)
    /\ UNCHANGED <<store, b, size, it, tb, meter, life>>

TableBatchReset ==
    /\ tb # NoTableBatch
    /\ b' = EmptyMap
    /\ size' = 0
    /\ ret' = OnTable(Ret("Reset", <<>>, NoData, "none", Nil, NoData, FALSE, 0),
                      tb.table)
    /\ UNCHANGED <<store, it, tb, meter, life>>

---------------------------------------------------------------------------
(* runGC, collectGarbage and Close.  The engine's maintenance calls and its *)
(* Close are modelled by their interface: each returns nil or an error.    *)

\* discardRatio = 0.5, as the fraction 1/2.
discardRatio == <<1, 2>>

ErrPurge      == "ErrPurge"          \* an error of PurgeOlderVersions
ErrValueLogGC == "ErrValueLogGC"     \* an error of RunValueLogGC
ErrClose      == "ErrClose"          \* an error of the engine's Close

\* The ticker puts a tick on ticker.C, which holds one tick; a tick that finds
\* it full is dropped.
Tick ==
    /\ ~tick
    /\ tick' = TRUE
    /\ UNCHANGED <<store, b, size, it, ret, tb, meter, closed, gc, log>>

\* runGC receives the tick and logs the start of a cycle.
GCStart ==
    /\ gc.pc = "wait"
    /\ tick
    /\ tick' = FALSE
    /\ gc' = [pc |-> "purge", calls |-> <<>>, err |-> Nil]
    /\ log' = [msg |-> "Start garbage collecting...", err |-> Nil]
    /\ UNCHANGED <<store, b, size, it, ret, tb, meter, closed>>

\* collectGarbage that goes on to the value log GC when the purge has failed.
GCPurgeThenAlways(err) ==
    /\ gc.pc = "purge"
    /\ gc' = [pc |-> "vlog",
              calls |-> Append(gc.calls, <<"PurgeOlderVersions">>),
              err |-> err]
    /\ UNCHANGED <<store, b, size, it, ret, tb, meter, closed, tick, log>>

\* collectGarbage calls PurgeOlderVersions, and returns its error if it has one.
GCPurge(err) ==
    /\ gc.pc = "purge"
    /\ gc' = [pc |-> IF err # Nil THEN "log" ELSE "vlog",
              calls |-> Append(gc.calls, <<"PurgeOlderVersions">>),
              err |-> err]
    /\ UNCHANGED <<store, b, size, it, ret, tb, meter, closed, tick, log>>

\* collectGarbage calls RunValueLogGC(discardRatio) and returns what it returns.
GCValueLog(err) ==
    /\ gc.pc = "vlog"
    /\ gc' = [pc |-> "log",
              calls |-> Append(gc.calls, <<"RunValueLogGC", discardRatio>>),
              err |-> err]
    /\ UNCHANGED <<store, b, size, it, ret, tb, meter, closed, tick, log>>

\* runGC that returns when a cycle has failed.
GCLogExitOnError ==
    /\ gc.pc = "log"
    /\ log' = IF gc.err = Nil THEN [msg |-> "Garbage collected", err |-> Nil]
              ELSE [msg |-> "Failed to collect garbage", err |-> gc.err]
    /\ gc' = [gc EXCEPT !.pc = IF gc.err = Nil THEN "wait" ELSE "exit"]
    /\ UNCHANGED <<store, b, size, it, ret, tb, meter, closed, tick>>

\* runGC logs the cycle's outcome and goes back to the select.
GCLog ==
    /\ gc.pc = "log"
    /\ log' = IF gc.err = Nil THEN [msg |-> "Garbage collected", err |-> Nil]
              ELSE [msg |-> "Failed to collect garbage", err |-> gc.err]
    /\ gc' = [gc EXCEPT !.pc = "wait"]
    /\ UNCHANGED <<store, b, size, it, ret, tb, meter, closed, tick>>

\* Close enters its Sleep.
CloseSleep ==
    /\ closed = "open"
    /\ closed' = "sleeping"
    /\ UNCHANGED <<store, b, size, it, ret, tb, meter, gc, tick, log>>

\* Close wakes up, closes the engine, logs the outcome and returns.
CloseEngine(err) ==
    /\ closed = "sleeping"
    /\ closed' = "closed"
    /\ log' = IF err = Nil THEN [msg |-> "Database closed", err |-> Nil]
              ELSE [msg |-> "Failed to close database", err |-> err]
    /\ ret' = Ret("Close", <<>>, NoData, "none", Nil, NoData, FALSE, 0)
    /\ UNCHANGED <<store, b, size, it, tb, meter, gc, tick>>

---------------------------------------------------------------------------
(* badgerIterator: NewIterator, Next, Seek, Key, Value, Release, Released. *)

\* Byte order: x is before y.
RECURSIVE KeyLess(_, _)
KeyLess(x, y) ==
    IF Len(y) = 0 THEN FALSE
    ELSE IF Len(x) = 0 THEN TRUE
    ELSE IF Head(x) # Head(y) THEN Head(x) < Head(y)
    ELSE KeyLess(Tail(x), Tail(y))

\* The keys S in the order the engine's iterator yields them.
RECURSIVE SortedKeys(_)
SortedKeys(S) ==
    IF S = {} THEN <<>>
    ELSE LET m == CHOOSE k \in S : \A j \in S \ {k} : KeyLess(k, j)
         IN <<m>> \o SortedKeys(S \ {m})

\* A read transaction that reads the store's current contents.
TxnViewLive(i, s) == s

\* What the iterator's read transaction sees when the store holds s.
TxnView(i, s) == i.snap

\* internIterator.Valid(), Rewind(), Next(), Seek(key), Item().Key() and
\* Item().Value() at position pos of the contents view.
IterValid(view, pos) == pos \in 1..Cardinality(DOMAIN view)

IterRewind(view) == 1

IterNext(view, pos) == IF IterValid(view, pos) THEN pos + 1 ELSE pos

IterSeek(view, key) == 1 + Cardinality({k \in DOMAIN view : KeyLess(k, key)})

IterKey(view, pos) == SortedKeys(DOMAIN view)[pos]

\* Item().Value() with the codec applied.
IterValueDecoded(view, pos) == Decode(view[IterKey(view, pos)]).dat[1]

IterValue(view, pos) == view[IterKey(view, pos)]

NewIterator ==
    /\ ~it.exists \/ it.released
    /\ it' = [exists |-> TRUE, snap |-> store, pos |-> 0, initialised |-> FALSE,
              released |-> FALSE, seeked |-> FALSE, visited |-> <<>>]
    /\ ret' = Ret("NewIterator", <<>>, NoData, "none", Nil, NoData, FALSE, 0)
    /\ UNCHANGED <<store, b, size, tb, meter, life>>

\* Next that never rewinds.
NextPosNoRewind(i, view) == IterNext(view, i.pos)

\* The position after badgerIterator.Next.
NextPos(i, view) ==
    IF ~i.initialised THEN IterRewind(view) ELSE IterNext(view, i.pos)

ItNext ==
    /\ it.exists /\ ~it.released
    /\ LET view == TxnView(it, store)
           pos == NextPos(it, view)
           valid == IterValid(view, pos)
       IN /\ it' = [it EXCEPT !.pos = pos, !.initialised = TRUE,
                              !.visited = IF valid /\ ~it.seeked
                                          THEN Append(@, IterKey(view, pos)) ELSE @]
          /\ ret' = Ret("Next", <<>>, NoData, "none", Nil, NoData, valid, 0)
    /\ UNCHANGED <<store, b, size, tb, meter, life>>

ItSeek(key) ==
    /\ it.exists /\ ~it.released
    /\ it' = [it EXCEPT !.pos = IterSeek(TxnView(it, store), key),
                        !.seeked = TRUE, !.visited = <<>>]
    /\ ret' = Ret("Seek", key, NoData, "none", Nil, NoData, FALSE, 0)
    /\ UNCHANGED <<store, b, size, tb, meter, life>>

\* Key and Value read the current item: there must be one.
ItKey ==
    /\ it.exists /\ ~it.released
    /\ IterValid(TxnView(it, store), it.pos)
    /\ ret' = Ret("Key", <<>>, NoData, "none", Nil,
                  Data(IterKey(TxnView(it, store), it.pos)), FALSE, 0)
    /\ UNCHANGED <<store, b, size, it, tb, meter, life>>

\* flt: the item's Value fails, and then badgerIterator.Value returns nil.
ItValue(flt) ==
    /\ it.exists /\ ~it.released
    /\ IterValid(TxnView(it, store), it.pos)
    /\ ret' = Ret("Value", IterKey(TxnView(it, store), it.pos), NoData,
                  IF flt THEN "value" ELSE "none", Nil,
                  IF flt THEN NoData ELSE Data(IterValue(TxnView(it, store), it.pos)),
                  FALSE, 0)
    /\ UNCHANGED <<store, b, size, it, tb, meter, life>>

ItRelease ==
    /\ it.exists /\ ~it.released
    /\ it' = [it EXCEPT !.released = TRUE]
    /\ ret' = Ret("Release", <<>>, NoData, "none", Nil, NoData, FALSE, 0)
    /\ UNCHANGED <<store, b, size, tb, meter, life>>

ItReleased ==
    /\ it.exists
    /\ ret' = Ret("Released", <<>>, NoData, "none", Nil, NoData, it.released, 0)
    /\ UNCHANGED <<store, b, size, it, tb, meter, life>>

---------------------------------------------------------------------------
(* The store and its batch: every call of a caller, with every input. *)

Init ==
    /\ store = EmptyMap
    /\ b = EmptyMap
    /\ size = 0
    /\ it = NoIter
    /\ ret = Ret("NewBadgerDatabase", <<>>, NoData, "none", Nil, NoData, FALSE, 0)
    /\ tb = NoTableBatch
    /\ meter = NoMeter
    /\ closed = "open"
    /\ gc = [pc |-> "wait", calls |-> <<>>, err |-> Nil]
    /\ tick = FALSE
    /\ log = NoLog

\* A failed commit of Put's or Delete's transaction returns what a failed
\* Set or Delete in it returns, so the failure of the one engine call stands
\* for both.
DoPut == \E k \in Keys, v \in Values, flt \in {"none", "set"} : Put(k, v, flt)

DoHas == \E k \in Keys, flt \in BOOLEAN : Has(k, flt)

DoGet == \E k \in Keys, flt \in {"none", "get", "value"} : Get(k, flt)

DoDelete == \E k \in Keys, flt \in {"none", "notfound", "delete"} : Delete(k, flt)

DoBatchPut == \E k \in Keys, v \in Values : BatchPut(k, v)

\* The commit can fail only when it is attempted: when the closure returned nil.
DoWrite ==
    \E order \in Orders(DOMAIN b) :
        \E fails \in SUBSET (1..Len(order)), cf \in BOOLEAN :
            /\ cf => WriteLoop(b, order, fails, 1, store, Nil).err = Nil
            /\ Write(order, fails, cf)

Next ==
    \/ DoPut
    \/ DoHas
    \/ DoGet
    \/ DoDelete
    \/ NewBatch
    \/ DoBatchPut
    \/ DoWrite
    \/ Discard
    \/ ValueSize
    \/ Reset

Spec == Init /\ [][Next]_vars

---------------------------------------------------------------------------
(* The iterator's caller and concurrent writers.  ret is what the iterator's  *)
(* caller got back last; the writers are other goroutines, whose Put, Delete  *)
(* and batch Write commit between the caller's calls and return to them.      *)

ConcurrentPut ==
    \E k \in Keys, v \in Values :
        /\ store' = PutRet(store, k, v, "none").store
        /\ meter' = PutMeter(meter, v)
        /\ UNCHANGED <<b, size, it, ret, tb, life>>

ConcurrentDelete ==
    \E k \in Keys :
        /\ store' = DeleteRet(store, k, "none").store
        /\ meter' = DeleteMeter(meter)
        /\ UNCHANGED <<b, size, it, ret, tb, life>>

\* The keys the concurrent writer puts into its batch.
BatchWriterKeys == {<<1, 2>>}

ConcurrentBatchPut ==
    \E k \in BatchWriterKeys, v \in Values :
        /\ size + Len(v) <= MaxSize
        /\ b' = BatchPutMap(b, k, v)
        /\ size' = size + Len(v)
        /\ meter' = BatchPutMeter(meter)
        /\ UNCHANGED <<store, it, ret, tb, life>>

ConcurrentWrite ==
    \E order \in Orders(DOMAIN b) :
        /\ store' = WriteRet(store, b, order, {}, FALSE).store
        /\ size' = 0
        /\ b' = EmptyMap
        /\ meter' = WriteMeter(meter, size)
        /\ UNCHANGED <<it, ret, tb, life>>

DoSeek == \E key \in Keys : ItSeek(key)

DoValue == \E flt \in BOOLEAN : ItValue(flt)

NextCursor ==
    \/ ConcurrentPut
    \/ ConcurrentDelete
    \/ ConcurrentBatchPut
    \/ ConcurrentWrite
    \/ NewIterator
    \/ ItNext
    \/ DoSeek
    \/ ItKey
    \/ DoValue
    \/ ItRelease
    \/ ItReleased

SpecCursor == Init /\ [][NextCursor]_vars

---------------------------------------------------------------------------
(* The tables: callers use the store through the tables T1..T4 and the      *)
(* batches made from them, and read the BadgerDatabase directly.           *)

\* The key the BadgerDatabase receives when the Database d is called with key.
RECURSIVE DatabaseKey(_, _)
DatabaseKey(d, key) ==
    IF d = "db" THEN key ELSE DatabaseKey(Tables[d].db, TableKey(d, key))

\* Of the engine's failures, the tables see those of Put's Set and of Get's
\* read.
DoTablePut ==
    \E t \in DOMAIN Tables, flt \in {"none", "set"} :
        \E key \in TableKeys(t), v \in Values : TablePut(t, key, v, flt)

DoTableHas ==
    \E t \in DOMAIN Tables, flt \in {FALSE} :
        \E key \in TableKeys(t) : TableHas(t, key, flt)

DoTableGet ==
    \E t \in DOMAIN Tables, flt \in {"none", "get"} :
        \E key \in TableKeys(t) : TableGet(t, key, flt)

DoTableDelete ==
    \E t \in DOMAIN Tables, flt \in {"none"} :
        \E key \in TableKeys(t) : TableDelete(t, key, flt)

DoTableClose == \E t \in DOMAIN Tables : TableClose(t)

DoTableNewBatch == \E t \in DOMAIN Tables : TableNewBatch(t)

DoNewTableBatch ==
    \E t \in DOMAIN Tables : NewTableBatch(Tables[t].db, Tables[t].prefix)

DoTableBatchPut ==
    \E key \in TableKeys(tb.table), v \in Values : TableBatchPut(key, v)

\* Of the failures of Write, the tables see a failed first Set and a failed
\* commit.
DoTableBatchWrite ==
    \E order \in Orders(DOMAIN b) :
        \E fails \in {{}, {1} \cap DOMAIN order}, cf \in BOOLEAN :
            /\ cf => WriteLoop(b, order, fails, 1, store, Nil).err = Nil
            /\ TableBatchWrite(order, fails, cf)

\* A direct Get on the BadgerDatabase at a key that a table passes to it.
DoBackingGet ==
    \E t \in DOMAIN Tables :
        \E key \in TableKeys(t) : Get(DatabaseKey(t, key), "none")

NextTable ==
    \/ DoTablePut
    \/ DoTableHas
    \/ DoTableGet
    \/ DoTableDelete
    \/ DoTableClose
    \/ DoTableNewBatch
    \/ DoNewTableBatch
    \/ DoTableBatchPut
    \/ DoTableBatchWrite
    \/ TableBatchValueSize
    \/ TableBatchReset
    \/ DoBackingGet

SpecTable == Init /\ [][NextTable]_vars

---------------------------------------------------------------------------
(* The reclaim loop: the runGC goroutine started by NewBadgerDatabase runs  *)
(* beside a caller that uses the store and then closes it.  The caller      *)
(* makes no call on the store once it has called Close.                    *)

\* The key and the value the caller uses.
CallerKey == <<1>>

CallerValue == <<1>>

CallerPut ==
    /\ closed = "open"
    /\ \E flt \in {"none", "set"} : Put(CallerKey, CallerValue, flt)

CallerHas == closed = "open" /\ Has(CallerKey, FALSE)

CallerGet ==
    /\ closed = "open"
    /\ \E flt \in {"none", "get"} : Get(CallerKey, flt)

CallerDelete == closed = "open" /\ Delete(CallerKey, "none")

CallerBatchPut == closed = "open" /\ BatchPut(CallerKey, CallerValue)

CallerWrite ==
    /\ closed = "open"
    /\ \E order \in Orders(DOMAIN b), cf \in BOOLEAN : Write(order, {}, cf)

DoGCPurge == \E err \in {Nil, ErrPurge} : GCPurge(err)

DoGCValueLog == \E err \in {Nil, ErrValueLogGC} : GCValueLog(err)

DoCloseEngine == \E err \in {Nil, ErrClose} : CloseEngine(err)

NextGC ==
    \/ CallerPut
    \/ CallerHas
    \/ CallerGet
    \/ CallerDelete
    \/ CallerBatchPut
    \/ CallerWrite
    \/ Tick
    \/ GCStart
    \/ DoGCPurge
    \/ DoGCValueLog
    \/ GCLog
    \/ CloseSleep
    \/ DoCloseEngine

\* The ticker keeps ticking and the runGC goroutine keeps being scheduled.
SpecGC ==
    /\ Init
    /\ [][NextGC]_vars
    /\ WF_vars(Tick)
    /\ WF_vars(GCStart)
    /\ WF_vars(DoGCPurge)
    /\ WF_vars(DoGCValueLog)
    /\ WF_vars(GCLog)

---------------------------------------------------------------------------
(* The collectors: a caller turns metering on and uses the store.  The      *)
(* timers take at most MaxSamples samples.                                  *)

Samples(m) == m.getTimer + m.putTimer + m.delTimer

DoMeter == \E enabled \in BOOLEAN : Meter(enabled)

MeteredPut == (meter.on => Samples(meter) < MaxSamples) /\ DoPut

MeteredGet == (meter.on => Samples(meter) < MaxSamples) /\ DoGet

MeteredDelete == (meter.on => Samples(meter) < MaxSamples) /\ DoDelete

NextMeter ==
    \/ DoMeter
    \/ MeteredPut
    \/ MeteredGet
    \/ MeteredDelete

SpecMeter == Init /\ [][NextMeter]_vars

---------------------------------------------------------------------------
(* What a caller would read in a state, when the engine's read succeeds. *)

GetOf(s, k) == GetRet(s, k, "none")

HasOf(s, k) == HasRet(s, k, FALSE)

Found(v) == [dat |-> Data(v), err |-> Nil]

NotFound == [dat |-> NoData, err |-> ErrKeyNotFound]

---------------------------------------------------------------------------
(* Claims. *)

\* C1: Write is all-or-nothing.  Whenever a Set inside Write's transaction
\* fails (at any position of any iteration order), Write returns a non-nil
\* error and the transaction is not committed: the store is unchanged.
C1_WriteAllOrNothing ==
    [][(ret'.op = "Write" /\ ret'.flt = "set")
        => (ret'.err # Nil /\ store' = store)]_vars

\* C2: Get(k) returns, with a nil error, exactly the value of the most recent
\* successful Put(k, v) not followed by a Delete(k).  Right after a successful
\* Put(k, v), Get(k) is (v, nil), also for the zero-length v and whatever k
\* held before; and what Get(k) returns changes only in a successful Put(k),
\* a successful Delete(k) or a successful batch Write.
C2_PutGetRoundTrip ==
    [][/\ (ret'.op = "Put" /\ ret'.err = Nil)
            => GetOf(store', ret'.key) = [dat |-> ret'.arg, err |-> Nil]
       /\ \A k \in Keys :
            GetOf(store', k) # GetOf(store, k)
                => /\ ret'.err = Nil
                   /\ \/ ret'.op \in {"Put", "Delete"} /\ ret'.key = k
                      \/ ret'.op = "Write"]_vars

\* C2 witness: a Get has returned a found zero-length value.
C2_Witness ==
    /\ ret.op = "Get" /\ ret.err = Nil /\ ret.dat = Data(<<>>)
    /\ \E k \in DOMAIN store : k # ret.key /\ GetOf(store, k) = Found(<<1>>)

\* C3: in every reachable state, for every key k, Has(k) is (true, nil) if k
\* has a live entry and (false, nil) if not, and Get(k) is NotFound with no
\* data exactly when Has(k) is false (the engine's read not failing).  No Has,
\* failed or not, returns the engine's not-found error.  No key is live in a
\* new store; a key becomes live only in a Put of it or a Write of a batch that
\* holds it, and stops being live only in a Delete of it.
C3_HasInv ==
    /\ \A k \in Keys :
        /\ HasOf(store, k) = [ok |-> k \in DOMAIN store, err |-> Nil]
        /\ (GetOf(store, k) = NotFound) <=> ~HasOf(store, k).ok
        /\ HasOf(store, k).ok => (GetOf(store, k).err = Nil /\ GetOf(store, k).dat # NoData)
    /\ ret.op = "Has" => ret.err # ErrKeyNotFound
    /\ (ret.op = "Has" /\ ret.flt = "none")
        => (ret.err = Nil /\ ret.ok = (ret.key \in DOMAIN store))
    /\ (ret.op = "Get" /\ ret.flt = "none" /\ ret.key \notin DOMAIN store)
        => (ret.err = ErrKeyNotFound /\ ret.dat = NoData)
    /\ ret.op = "NewBadgerDatabase" => \A k \in Keys : ~HasOf(store, k).ok

C3_HasLive ==
    /\ []C3_HasInv
    /\ [][\A k \in Keys :
            /\ (~HasOf(store, k).ok /\ HasOf(store', k).ok)
                => \/ ret'.op = "Put" /\ ret'.key = k
                   \/ ret'.op = "Write" /\ k \in DOMAIN b
            /\ (HasOf(store, k).ok /\ ~HasOf(store', k).ok)
                => (ret'.op = "Delete" /\ ret'.key = k)]_vars

\* C3 witness: Has has returned false for an absent key while another is live.
C3_Witness ==
    /\ ret.op = "Has" /\ ret.flt = "none" /\ ~ret.ok /\ ret.err = Nil
    /\ ret.key \notin DOMAIN store
    /\ store # EmptyMap

\* C4: Delete is idempotent.  Delete(k) of an absent key returns nil (whether
\* or not the engine reports the key as not found) and leaves the store as it
\* was; after a successful Delete(k), Has(k) is false, Get(k) is NotFound and
\* every other key has the entry it had; a second Delete(k) right after a
\* successful one returns nil and leaves the store unchanged.
C4_DeleteIdempotent ==
    [][ret'.op = "Delete" =>
        /\ (ret'.key \notin DOMAIN store /\ ret'.flt \in {"none", "notfound"})
            => (ret'.err = Nil /\ store' = store)
        /\ ret'.err = Nil
            => /\ ~HasOf(store', ret'.key).ok
               /\ GetOf(store', ret'.key) = NotFound
               /\ \A k \in Keys \ {ret'.key} :
                    /\ k \in DOMAIN store' <=> k \in DOMAIN store
                    /\ k \in DOMAIN store => store'[k] = store[k]
        /\ (ret.op = "Delete" /\ ret.err = Nil /\ ret.key = ret'.key
                /\ ret'.flt \in {"none", "notfound"})
            => (ret'.err = Nil /\ store' = store)]_vars

\* C4 witness: a Delete of an absent key, reported as not found by the engine,
\* has returned nil with other keys live.
C4_Witness ==
    /\ ret.op = "Delete" /\ ret.flt = "notfound" /\ ret.err = Nil
    /\ ret.key \notin DOMAIN store
    /\ store # EmptyMap

\* C5: after a Write that returned nil, every key of the batch reads, through
\* the store's Get, the value the batch held for it (the last batch Put), in
\* whatever order the entries were applied, and every other key reads what it
\* read before.
C5_WriteApplied ==
    [][(ret'.op = "Write" /\ ret'.err = Nil)
        => \A k \in Keys :
            GetOf(store', k) = IF k \in DOMAIN b THEN Found(b[k]) ELSE GetOf(store, k)]_vars

\* C6: whenever Write has returned, with nil or with an error, the batch is
\* empty and ValueSize() is 0; a Write that follows a Write with no Put in
\* between leaves the store unchanged.
C6_WriteClears ==
    /\ [](ret.op = "Write" => (b = EmptyMap /\ size = 0))
    /\ [][/\ (ret.op = "Write" /\ ret'.op = "ValueSize") => ret'.n = 0
          /\ (ret.op = "Write" /\ ret'.op = "Write") => store' = store]_vars

\* C6 witness: a Write in which a Set failed has returned an error.
C6_Witness ==
    /\ ret.op = "Write" /\ ret.flt = "set" /\ ret.err # Nil
    /\ b = EmptyMap /\ size = 0

\* C7: the batch's Put, Discard, Reset and ValueSize leave the engine's
\* contents, hence every Get and Has, as they were; after Discard and after
\* Reset alike the batch is empty, ValueSize() is 0 and a Write that follows
\* at once leaves the store unchanged.
C7_BatchFrame ==
    /\ [](ret.op \in {"Discard", "Reset"} => (b = EmptyMap /\ size = 0))
    /\ [][/\ ret'.op \in {"BatchPut", "Discard", "Reset", "ValueSize"}
                => /\ store' = store
                   /\ \A k \in Keys : /\ GetOf(store', k) = GetOf(store, k)
                                      /\ HasOf(store', k) = HasOf(store, k)
          /\ (ret.op \in {"Discard", "Reset"} /\ ret'.op = "ValueSize") => ret'.n = 0
          /\ (ret.op \in {"Discard", "Reset"} /\ ret'.op = "Write")
                => store' = store]_vars

\* C7 witness: a key put into the batch is not readable through the store.
C7_Witness ==
    /\ ret.op = "BatchPut" /\ ret.key \in DOMAIN b
    /\ GetOf(store, ret.key) = NotFound /\ ~HasOf(store, ret.key).ok
    /\ store # EmptyMap

---------------------------------------------------------------------------
(* Claims about the iterator. *)

Live(i) == i.exists /\ ~i.released

Range(q) == {q[i] : i \in DOMAIN q}

MinKey(S) == CHOOSE k \in S : \A j \in S \ {k} : KeyLess(k, j)

\* C8: snapshot isolation.  An iterator's transaction sees the store's
\* contents of the moment NewIterator was called, and keeps seeing them until
\* Release whatever is committed meanwhile: a concurrent Put, Delete or batch
\* Write changes neither the iterator nor what it sees.  Every key and value
\* the iterator returns is of those contents, and a scan by Next alone ends
\* having visited exactly their keys.
C8_Inv ==
    Live(it) =>
        /\ ret.op = "Key" => \E k \in DOMAIN it.snap : ret.dat = Data(k)
        /\ (ret.op = "Value" /\ ret.flt = "none")
            => (ret.key \in DOMAIN it.snap /\ ret.dat = Data(it.snap[ret.key]))
        /\ (ret.op = "Next" /\ ~ret.ok /\ ~it.seeked)
            => Range(it.visited) = DOMAIN it.snap

C8_SnapshotIsolation ==
    /\ []C8_Inv
    /\ [][/\ (ret'.op = "NewIterator" /\ it' # it) => it'.snap = store
          /\ (Live(it) /\ ~it'.released)
                => /\ it'.snap = it.snap
                   /\ store' # store => (it' = it /\ ret' = ret)]_vars

\* C8 witness: a scan by Next has ended while the store, changed since the
\* iterator was created, holds a key the snapshot lacks and lacks a key the
\* snapshot holds.
C8_Witness ==
    /\ Live(it) /\ ret.op = "Next" /\ ~ret.ok /\ ~it.seeked
    /\ it.visited # <<>>
    /\ \E k \in DOMAIN store : k \notin DOMAIN it.snap
    /\ \E k \in DOMAIN it.snap : k \notin DOMAIN store

\* C9: a Next() that follows Seek(key), on any iterator not released, ends on
\* the snapshot key right after the first key >= key and returns true, or
\* returns false when there is no such key.
C9_NextAfterSeek ==
    [][(ret.op = "Seek" /\ ret'.op = "Next")
        => LET K == DOMAIN it.snap
               ge == {k \in K : ~KeyLess(k, ret.key)}
               after == IF ge = {} THEN {} ELSE {k \in K : KeyLess(MinKey(ge), k)}
           IN IF after = {} THEN ~ret'.ok
              ELSE ret'.ok /\ IterKey(it'.snap, it'.pos) = MinKey(after)]_vars

\* C9 on an iterator on which Next had been called before the Seek.
C9_NextAfterSeekInitialised ==
    [][(ret.op = "Seek" /\ ret'.op = "Next" /\ it.initialised)
        => LET K == DOMAIN it.snap
               ge == {k \in K : ~KeyLess(k, ret.key)}
               after == IF ge = {} THEN {} ELSE {k \in K : KeyLess(MinKey(ge), k)}
           IN IF after = {} THEN ~ret'.ok
              ELSE ret'.ok /\ IterKey(it'.snap, it'.pos) = MinKey(after)]_vars

\* C10: on an iterator used through Next, Key and Value only, the first
\* Next() ends on the smallest key of the snapshot and returns true iff the
\* snapshot is not empty, every later Next() that returns true visits one more
\* key, and Next() returns false only when every key has been visited; the
\* keys visited are in strictly ascending byte order, each the next of the
\* snapshot, and Key() returns the key visited last.
C10_Inv ==
    (it.exists /\ ~it.seeked) =>
        LET q == it.visited
            K == DOMAIN it.snap
        IN /\ \A i, j \in DOMAIN q : i < j => KeyLess(q[i], q[j])
           /\ \A i \in DOMAIN q :
                q[i] \in K /\ Cardinality({k \in K : KeyLess(k, q[i])}) = i - 1
           /\ (ret.op = "Next" /\ ~ret.ok) => Len(q) = Cardinality(K)
           /\ (ret.op = "Next" /\ ret.ok) => Len(q) > 0
           /\ ret.op = "Key" => (Len(q) > 0 /\ ret.dat = Data(q[Len(q)]))

C10_NextScan ==
    /\ []C10_Inv
    /\ [][(ret'.op = "Next" /\ ~it.seeked /\ (it' # it \/ ret' # ret))
            => /\ ~it.initialised
                    => /\ ret'.ok = (DOMAIN it.snap # {})
                       /\ ret'.ok => it'.visited = <<MinKey(DOMAIN it.snap)>>
               /\ (it.initialised /\ ret'.ok)
                    => Len(it'.visited) = Len(it.visited) + 1
               /\ ~ret'.ok => it'.visited = it.visited]_vars

\* C10 witness: a scan by Next alone has visited three keys and ended.
C10_Witness ==
    /\ Live(it) /\ ~it.seeked
    /\ ret.op = "Next" /\ ~ret.ok
    /\ Len(it.visited) = 3

\* C11: the iterator's Value() returns the engine's raw bytes.  For an entry
\* whose value v was written by Put or by a batch Write, Value() at its key is
\* Encode(v), which is not v, while Get of the same entry is v: Value() equals
\* Get only once the caller has decoded it.
C11_ValueRaw ==
    (Live(it) /\ ret.op = "Value" /\ ret.flt = "none")
        => /\ ret.key \in DOMAIN it.snap
           /\ \E v \in Values :
                /\ GetOf(it.snap, ret.key) = Found(v)
                /\ ret.dat = Data(Encode(v))
                /\ ret.dat # Data(v)
                /\ Decode(ret.dat[1]) = GetOf(it.snap, ret.key)

\* C11 witness: Value() has returned the encoding of a one-byte value at a key
\* whose entry the store still holds.
C11_Witness ==
    /\ Live(it) /\ ret.op = "Value" /\ ret.flt = "none"
    /\ ret.dat = Data(Encode(<<1>>))
    /\ GetOf(store, ret.key) = Found(<<1>>)

\* C19: ValueSize() is the sum of len(value) over every Put made on the batch
\* since it was created or last written, reset or discarded: each Put adds the
\* length of its value, also when it replaces a queued entry, so the counter is
\* never below the total length of the queued values and may exceed it;
\* ValueSize() returns the counter and changes nothing.
C19_ValueSizeCumulative ==
    [][/\ ret'.op = "BatchPut" => size' = size + Len(b'[ret'.key])
       /\ ret'.op \in {"NewBatch", "Write", "Reset", "Discard"} => size' = 0
       /\ ret'.op = "ValueSize" => (ret'.n = size /\ size' = size /\ b' = b)
       /\ ret'.op \notin {"BatchPut", "NewBatch", "Write", "Reset", "Discard"}
            => size' = size
       /\ size' >= SumLen(b')]_vars

\* C19 witness: ValueSize() has returned more than the queued values hold,
\* after a Put replaced a queued entry.
C19_Witness ==
    /\ ret.op = "ValueSize"
    /\ ret.n = size
    /\ DOMAIN b # {}
    /\ ret.n > SumLen(b)

\* x is a prefix of y.
PrefixOf(x, y) == Len(x) <= Len(y) /\ SubSeq(y, 1, Len(x)) = x

\* C12: a table with prefix P over a backing store S behaves as S with the
\* key P ++ k: every Put, Get, Has and Delete through the table returns what
\* the same call on S with the key P ++ k returns in that state, and leaves the
\* engine's contents as that call leaves them.
C12_TableIsPrefixedStore ==
    [][\A t \in DOMAIN Tables :
        ret'.on = t =>
            LET S  == Tables[t].db
                pk == Tables[t].prefix \o ret'.key
            IN /\ ret'.op = "Put" =>
                    LET r == DatabasePut(S, store, pk, ret'.arg[1], ret'.flt)
                    IN store' = r.store /\ ret'.err = r.err
               /\ ret'.op = "Get" =>
                    LET r == DatabaseGet(S, store, pk, ret'.flt)
                    IN store' = store /\ ret'.err = r.err /\ ret'.dat = r.dat
               /\ ret'.op = "Has" =>
                    LET r == DatabaseHas(S, store, pk, ret'.flt = "get")
                    IN store' = store /\ ret'.err = r.err /\ ret'.ok = r.ok
               /\ ret'.op = "Delete" =>
                    LET r == DatabaseDelete(S, store, pk, ret'.flt)
                    IN store' = r.store /\ ret'.err = r.err]_vars

\* C12 witness: a direct Get on the BadgerDatabase at the key <<1, 3>> has
\* returned the value <<1>>, which only a Put or a batch Write through a
\* table can have stored there.
C12_Witness ==
    /\ ret.on = "db" /\ ret.op = "Get" /\ ret.key = <<1, 3>>
    /\ ret.err = Nil /\ ret.dat = Data(<<1>>)
    /\ DatabaseGet("T1", store, <<3>>, "none") = Found(<<1>>)

\* C13: two tables over the same backing store whose prefixes are not
\* prefixes of one another are isolated: no Put, Delete or batch Write
\* through one of them changes what Get or Has through the other returns,
\* for any key.
C13_NamespaceIsolation ==
    [][\A t1, t2 \in DOMAIN Tables :
        (/\ ret'.on = t1
         /\ ret'.op \in {"Put", "Delete", "Write"}
         /\ Tables[t1].db = Tables[t2].db
         /\ ~PrefixOf(Tables[t1].prefix, Tables[t2].prefix)
         /\ ~PrefixOf(Tables[t2].prefix, Tables[t1].prefix))
            => \A key \in {<<3>>, <<2, 3>>} :
                 /\ DatabaseGet(t2, store', key, "none")
                        = DatabaseGet(t2, store, key, "none")
                 /\ DatabaseHas(t2, store', key, FALSE)
                        = DatabaseHas(t2, store, key, FALSE)]_vars

\* C13 witness: a batch Write through T1 has returned while T1 and T2 hold
\* different values under the same key <<3>>.
C13_Witness ==
    /\ ret.on = "T1" /\ ret.op = "Write" /\ ret.err = Nil
    /\ DatabaseGet("T1", store, <<3>>, "none") = Found(<<1>>)
    /\ DatabaseGet("T2", store, <<3>>, "none") = Found(<<>>)

\* C14: a batch made by a table's NewBatch, or by NewTableBatch for that
\* table's backing store and prefix, queues every Put under the key that the
\* table's own Put writes (all enclosing prefixes, the outermost store's
\* first), and its Write changes those keys only, each to what a direct Put
\* stores when nothing fails; ValueSize returns the underlying counter and
\* Reset empties the underlying batch.
C14_TableBatchComposes ==
    [][\A t \in DOMAIN Tables :
        ret'.on = t =>
            /\ ret'.op = "BatchPut" =>
                 \E v \in Values :
                    /\ DOMAIN DatabasePut(t, EmptyMap, ret'.key, v, "none").store
                          = {DatabaseKey(t, ret'.key)}
                    /\ b' = MapSet(b, DatabaseKey(t, ret'.key), v)
                    /\ size' = size + Len(v)
                    /\ store' = store
            /\ ret'.op = "Write" =>
                 /\ \A k \in (DOMAIN store \cup DOMAIN store') \ DOMAIN b :
                        /\ k \in DOMAIN store /\ k \in DOMAIN store'
                        /\ store'[k] = store[k]
                 /\ ret'.flt = "none" =>
                        \A k \in DOMAIN b :
                            /\ k \in DOMAIN store'
                            /\ store'[k] = PutRet(store, k, b[k], "none").store[k]
                 /\ b' = EmptyMap /\ size' = 0
            /\ ret'.op = "ValueSize" =>
                 ret'.n = size /\ size' = size /\ b' = b /\ store' = store
            /\ ret'.op = "Reset" =>
                 b' = EmptyMap /\ size' = 0 /\ store' = store /\ tb' = tb]_vars

\* C14 witness: the Write of a batch made from T3, the table over the table
\* T1, has returned nil, and the store holds one entry, under <<1, 2, 3>>.
C14_Witness ==
    /\ ret.on = "T3" /\ ret.op = "Write" /\ ret.flt = "none" /\ ret.err = Nil
    /\ tb.prefixes = <<<<2>>, <<1>>>>
    /\ store = MapSet(EmptyMap, <<1, 2, 3>>, Encode(<<1>>))

\* C18: Close on a table changes nothing: the backing store stays open and
\* its contents, the batch and the collectors are as before, so every call
\* through the backing store or any table returns what it would have returned
\* without the Close.
C18_TableCloseNoOp ==
    [][(ret'.op = "Close" /\ ret'.on \in DOMAIN Tables)
        => /\ closed' = closed /\ closed' = "open"
           /\ UNCHANGED <<store, b, size, it, tb, meter, gc, tick, log>>
           /\ \A d \in {"db"} \cup DOMAIN Tables, key \in {<<3>>, <<2, 3>>} :
                /\ DatabaseGet(d, store', key, "none")
                      = DatabaseGet(d, store, key, "none")
                /\ DatabaseHas(d, store', key, FALSE)
                      = DatabaseHas(d, store, key, FALSE)]_vars

\* C18 witness: Close on T1 has returned; the engine is open and T1 and T2
\* still hold their entries.
C18_Witness ==
    /\ ret.op = "Close" /\ ret.on = "T1"
    /\ closed = "open"
    /\ DatabaseGet("T1", store, <<3>>, "none") = Found(<<1>>)
    /\ DatabaseGet("T2", store, <<3>>, "none") = Found(<<1>>)

\* The engine calls of a reclaim cycle.
PurgeCall == <<"PurgeOlderVersions">>

ValueLogCall == <<"RunValueLogGC", discardRatio>>

\* C15 as stated: every reclaim cycle invokes purge-old-versions and then the
\* value-log GC with discard ratio 0.5, whatever the purge returned: when
\* collectGarbage has returned, the cycle has made both calls, in that order.
C15_ValueLogAfterAnyPurge ==
    gc.pc = "log" => gc.calls = <<PurgeCall, ValueLogCall>>

\* C15 as amended: every reclaim cycle invokes purge-old-versions first; it
\* invokes the value-log GC with discard ratio 0.5, after the purge has
\* returned, exactly when the purge returned nil; when the purge fails the
\* cycle ends with the purge's error and the value-log GC is not invoked.
C15_ValueLogAfterPurgeNil ==
    /\ gc.pc = "purge" => gc.calls = <<>>
    /\ gc.pc = "vlog" => (gc.calls = <<PurgeCall>> /\ gc.err = Nil)
    /\ gc.pc = "log" =>
          \/ gc.err = ErrPurge /\ gc.calls = <<PurgeCall>>
          \/ gc.err \in {Nil, ErrValueLogGC}
                /\ gc.calls = <<PurgeCall, ValueLogCall>>

\* C15 witness: collectGarbage has returned the purge's error, having made
\* the one call.
C15_Witness ==
    gc.pc = "log" /\ gc.err = ErrPurge /\ gc.calls = <<PurgeCall>>

\* C16: a failed reclaim cycle is only logged.  No foreground call returns a
\* maintenance error, and no step of the loop changes the store, the batch or
\* what a call returned; the loop logs the failure, makes no engine call
\* again until it has received the next tick, starts one cycle per tick
\* received, and never leaves its loop; the ticker and the goroutine being
\* scheduled, every cycle that ends, failed or not, is followed by the start
\* of another.
C16_FailureOnlyLogged ==
    /\ [](/\ ret.err \notin {ErrPurge, ErrValueLogGC}
          /\ gc.pc \in {"wait", "purge", "vlog", "log"})
    /\ [][/\ gc' # gc => UNCHANGED <<store, b, size, it, ret, tb, meter, closed>>
          /\ (gc.pc = "log" /\ gc'.pc # "log") =>
                /\ gc'.pc = "wait"
                /\ gc'.calls = gc.calls
                /\ gc.err # Nil =>
                      log' = [msg |-> "Failed to collect garbage", err |-> gc.err]
          /\ (gc.pc = "wait" /\ gc' # gc) =>
                /\ tick /\ ~tick'
                /\ gc' = [pc |-> "purge", calls |-> <<>>, err |-> Nil]
          /\ gc'.pc = "purge" => (gc.pc \in {"wait", "purge"})]_vars
    /\ (gc.pc = "log") ~> (gc.pc = "purge")

\* C16 witness: a cycle has failed in the value-log GC, the failure is logged
\* and the loop waits for the next tick, while the caller's last Get
\* returned its value.
C16_Witness ==
    /\ gc.pc = "wait" /\ gc.err = ErrValueLogGC /\ ~tick
    /\ log = [msg |-> "Failed to collect garbage", err |-> ErrValueLogGC]
    /\ ret.op = "Get" /\ ret.err = Nil

\* C17: with metering on, a Get records one latency sample; it records a
\* read sample, of the decoded value's length, only if it succeeds; it
\* records a miss of 1 exactly if it fails; a failed Get returns no data.
C17_GetMetering ==
    [][(meter.on /\ ret'.op = "Get" /\ meter' # meter) =>
          /\ meter'.getTimer = meter.getTimer + 1
          /\ meter'.readMeter # meter.readMeter => ret'.err = Nil
          /\ ret'.err = Nil =>
                /\ meter'.readMeter = Mark(meter.readMeter, Len(ret'.dat[1]))
                /\ meter'.missMeter = meter.missMeter
          /\ ret'.err # Nil =>
                /\ meter'.missMeter = Mark(meter.missMeter, 1)
                /\ ret'.dat = NoData]_vars

\* C17 without its clause on the read sample of a failed Get.
C17_GetMeteringButReadSample ==
    [][(meter.on /\ ret'.op = "Get" /\ meter' # meter) =>
          /\ meter'.getTimer = meter.getTimer + 1
          /\ ret'.err = Nil =>
                /\ meter'.readMeter = Mark(meter.readMeter, Len(ret'.dat[1]))
                /\ meter'.missMeter = meter.missMeter
          /\ ret'.err # Nil =>
                /\ meter'.readMeter = Mark(meter.readMeter, 0)
                /\ meter'.missMeter = Mark(meter.missMeter, 1)
                /\ ret'.dat = NoData]_vars

\* C20: Close is the last operation on the engine: once Close has closed the
\* engine the reclaim loop makes no engine call, and no reclaim cycle is in
\* progress in the step that closes the engine.
C20_CloseIsLast ==
    [][/\ closed = "closed" => Len(gc'.calls) <= Len(gc.calls)
       /\ (closed # "closed" /\ closed' = "closed") => gc.pc = "wait"]_vars

=============================================================================
